---- MODULE Spec2Model ----
(***************************************************************************)
(* Model of the multi-agent content workflow of Marketing-Agent-Demo:      *)
(* MultiAgentFlow.generate_post driving PlannerAgent, WriterAgent and      *)
(* CritiqueAgent through the InferenceGateway, with the process-wide       *)
(* TraceLogger.                                                            *)
(*                                                                         *)
(* A run is cut at its suspension points (the awaits on gateway.generate): *)
(* one action per resumption.  Texts are sequences of tokens, so that      *)
(* str.strip, str.find, str.rfind and json.loads are computed, not assumed.*)
(* Numbers are kept in thirds of a point (ScoreUnit), which makes the mean *)
(* of three integer sub-scores exact.                                      *)
(***************************************************************************)
EXTENDS Integers, Sequences, FiniteSets, TLC

VARIABLES
    max_rewrites,     \* MultiAgentFlow.max_rewrites
    pass_threshold,   \* CritiqueAgent.pass_threshold (thirds of a point)
    pc,               \* position of generate_post
    topic,            \* generate_post argument
    brand_voice,      \* generate_post argument ("None" when absent)
    run_start,        \* local start_time of generate_post
    outline,          \* local outline
    content,          \* local content
    iterations,       \* local iterations
    final_score,      \* local final_score (thirds of a point)
    workflow_log,     \* local workflow_log
    attempt,          \* loop variable of the critique loop
    result,           \* <<>> or <<the returned dict>>
    error,            \* "None" or the exception that left generate_post
    trace,            \* the TraceLogger singleton
    clock,            \* datetime.now()
    calls,            \* history: stage calls made by the orchestrator
    drafts,           \* history: values returned by write_post
    reviews,          \* history: triples returned by evaluate_post
    inference,        \* history: gateway.generate calls
    backend,          \* history: what the backend did on each of them
    peer              \* the other generate_post coroutine of the event loop

vars == <<max_rewrites, pass_threshold, pc, topic, brand_voice, run_start,
          outline, content, iterations, final_score, workflow_log, attempt,
          result, error, trace, clock, calls, drafts, reviews, inference,
          backend, peer>>

-----------------------------------------------------------------------------
(* Bounds of the model *)

MaxRewritesBound == 2

-----------------------------------------------------------------------------
(* Numbers *)

ScoreUnit == 3

DefaultSubScore == 7

FallbackScore == 7

Pts(x) == ScoreUnit * x

-----------------------------------------------------------------------------
(* JSON values and text tokens *)

Num(x) == [t |-> "num", n |-> Pts(x), s |-> ""]

Str(x) == [t |-> "str", n |-> 0, s |-> x]

Bool(b) == [t |-> "bool", n |-> IF b THEN Pts(1) ELSE 0, s |-> ""]

Null == [t |-> "null", n |-> 0, s |-> ""]

Tok(ch) == [c |-> ch, k |-> "", v |-> Null]

KV(key, val) == [c |-> "kv", k |-> key, v |-> val]

LB == Tok("{")

RB == Tok("}")

SP == Tok(" ")

W(word) == Tok(word)

\* bool(x) of Python for a JSON value
Truthy(val) ==
    CASE val.t = "str" -> val.s # ""
      [] val.t = "num" -> val.n # 0
      [] val.t = "bool" -> val.n # 0
      [] OTHER -> FALSE

\* int, float and bool take part in arithmetic and ordering; str and None do not
IsNumber(val) == val.t \in {"num", "bool"}

-----------------------------------------------------------------------------
(* str methods *)

RECURSIVE lstrip(_)
lstrip(text) ==
    IF text # <<>> /\ Head(text) = SP THEN lstrip(Tail(text)) ELSE text

RECURSIVE rstrip(_)
rstrip(text) ==
    IF text # <<>> /\ text[Len(text)] = SP
    THEN rstrip(SubSeq(text, 1, Len(text) - 1))
    ELSE text

strip(text) == rstrip(lstrip(text))

\* str.find: 0-based index of the first occurrence, -1 when there is none
find(text, ch) ==
    LET hits == {i \in 1..Len(text) : text[i].c = ch}
    IN  IF hits = {} THEN -1
        ELSE (CHOOSE i \in hits : \A j \in hits : i <= j) - 1

\* str.rfind: 0-based index of the last occurrence, -1 when there is none
rfind(text, ch) ==
    LET hits == {i \in 1..Len(text) : text[i].c = ch}
    IN  IF hits = {} THEN -1
        ELSE (CHOOSE i \in hits : \A j \in hits : i >= j) - 1

\* text[start:end] for 0 <= start
slice(text, start, end) == SubSeq(text, start + 1, end)

-----------------------------------------------------------------------------
(* json.loads on a text that starts at a '{' and ends at a '}' *)

EmptyDict == [key \in {} |-> Null]

DictSet(d, key, val) ==
    [x \in DOMAIN d \cup {key} |-> IF x = key THEN val ELSE d[x]]

DictGet(d, key, default) == IF key \in DOMAIN d THEN d[key] ELSE default

DictUpdate(d, e) ==
    [x \in DOMAIN d \cup DOMAIN e |-> IF x \in DOMAIN e THEN e[x] ELSE d[x]]

json_loads(text) ==
    LET n == Len(text)
        inner == 2..(n - 1)
        wellformed == /\ n >= 2
                      /\ text[1] = LB
                      /\ text[n] = RB
                      /\ \A i \in inner : text[i].c \in {"kv", " "}
        keys == {text[i].k : i \in {j \in inner : text[j].c = "kv"}}
        last(key) == CHOOSE i \in inner :
                        /\ text[i].c = "kv" /\ text[i].k = key
                        /\ \A j \in inner :
                              (text[j].c = "kv" /\ text[j].k = key) => j <= i
    IN  IF wellformed
        THEN [ok |-> TRUE, d |-> [key \in keys |-> text[last(key)].v]]
        ELSE [ok |-> FALSE, d |-> EmptyDict]

-----------------------------------------------------------------------------
(* CritiqueAgent *)

FallbackFeedback == Str("Could not parse evaluation properly. Consider regenerating.")

\* the neutral evaluation returned when the envelope cannot be decoded
FallbackEvaluation ==
    [key \in {"score", "brand_adherence", "quality", "tone_length",
              "feedback", "approved"} |->
        CASE key = "score" -> Num(FallbackScore)
          [] key = "feedback" -> FallbackFeedback
          [] key = "approved" -> Bool(FALSE)
          [] OTHER -> Num(DefaultSubScore)]

\* CritiqueAgent._parse_evaluation: the evaluation dict, or the exception
\* that leaves the function (only JSONDecodeError / ValueError are caught)
_parse_evaluation(response_content) ==
    LET start == find(response_content, "{")
        end == rfind(response_content, "}") + 1
        json_str == slice(response_content, start, end)
        decoded == json_loads(json_str)
        evaluation == decoded.d
        scores == <<DictGet(evaluation, "brand_adherence", Num(DefaultSubScore)),
                    DictGet(evaluation, "quality", Num(DefaultSubScore)),
                    DictGet(evaluation, "tone_length", Num(DefaultSubScore))>>
        mean == [t |-> "num",
                 n |-> (scores[1].n + scores[2].n + scores[3].n) \div Len(scores),
                 s |-> ""]
    IN  IF start # -1 /\ end > start
        THEN IF decoded.ok
             THEN IF "score" \notin DOMAIN evaluation
                  THEN IF \A i \in 1..Len(scores) : IsNumber(scores[i])
                       THEN [raised |-> "None",
                             ev |-> DictSet(evaluation, "score", mean)]
                       ELSE [raised |-> "TypeError", ev |-> EmptyDict]
                  ELSE [raised |-> "None", ev |-> evaluation]
             ELSE [raised |-> "None", ev |-> FallbackEvaluation]
        ELSE [raised |-> "None", ev |-> FallbackEvaluation]

\* variant: the agent grows lenient, by one point for each evaluation it made
evaluate_result_lenient(response_content, threshold) ==
    LET parsed == _parse_evaluation(response_content)
        evaluation == parsed.ev
        none == [raised |-> "None", approved |-> FALSE, feedback |-> Null, score |-> 0]
    IN  IF parsed.raised # "None"
        THEN [none EXCEPT !.raised = parsed.raised]
        ELSE IF ~IsNumber(evaluation["score"])
        THEN [none EXCEPT !.raised = "TypeError"]
        ELSE IF "feedback" \notin DOMAIN evaluation
        THEN [none EXCEPT !.raised = "KeyError"]
        ELSE [raised |-> "None",
              approved |-> evaluation["score"].n >= threshold - Pts(Len(reviews)),
              feedback |-> evaluation["feedback"],
              score |-> evaluation["score"].n]

\* variant: the verdict of the envelope is taken when there is one
evaluate_result_trusting(response_content, threshold) ==
    LET parsed == _parse_evaluation(response_content)
        evaluation == parsed.ev
        none == [raised |-> "None", approved |-> FALSE, feedback |-> Null, score |-> 0]
    IN  IF parsed.raised # "None"
        THEN [none EXCEPT !.raised = parsed.raised]
        ELSE IF ~IsNumber(evaluation["score"])
        THEN [none EXCEPT !.raised = "TypeError"]
        ELSE IF "feedback" \notin DOMAIN evaluation
        THEN [none EXCEPT !.raised = "KeyError"]
        ELSE [raised |-> "None",
              approved |-> IF "approved" \in DOMAIN evaluation
                           THEN Truthy(evaluation["approved"])
                           ELSE evaluation["score"].n >= threshold,
              feedback |-> evaluation["feedback"],
              score |-> evaluation["score"].n]

\* CritiqueAgent.evaluate_post after its await: the returned triple, or the
\* exception that leaves the function
evaluate_result(response_content, threshold) ==
    LET parsed == _parse_evaluation(response_content)
        evaluation == parsed.ev
        none == [raised |-> "None", approved |-> FALSE, feedback |-> Null, score |-> 0]
    IN  IF parsed.raised # "None"
        THEN [none EXCEPT !.raised = parsed.raised]
        ELSE IF ~IsNumber(evaluation["score"])
        THEN [none EXCEPT !.raised = "TypeError"]
        ELSE IF "feedback" \notin DOMAIN evaluation
        THEN [none EXCEPT !.raised = "KeyError"]
        ELSE [raised |-> "None",
              approved |-> evaluation["score"].n >= threshold,
              feedback |-> evaluation["feedback"],
              score |-> evaluation["score"].n]

-----------------------------------------------------------------------------
(* Prompts *)

NoText == <<>>

\* the brand section of a prompt: present only for a truthy brand_voice
brand_section(bv) == IF bv # "None" /\ bv # "" THEN bv ELSE ""

_create_planning_prompt(tp, bv) ==
    [agent |-> "planner", topic |-> tp, outline |-> NoText, content |-> NoText,
     brand |-> brand_section(bv), action |-> "Plan",
     rewrite_section |-> FALSE, feedback |-> Null]

_create_writing_prompt(tp, ol, bv, is_rewrite, critique_feedback) ==
    LET section == is_rewrite /\ Truthy(critique_feedback)
    IN  [agent |-> "writer", topic |-> tp, outline |-> ol, content |-> NoText,
         brand |-> brand_section(bv),
         action |-> IF is_rewrite THEN "Rewrite" ELSE "Write",
         rewrite_section |-> section,
         feedback |-> IF section THEN critique_feedback ELSE Null]

_create_critique_prompt(ct, tp, bv) ==
    [agent |-> "critique", topic |-> tp, outline |-> NoText, content |-> ct,
     brand |-> brand_section(bv), action |-> "Evaluate",
     rewrite_section |-> FALSE, feedback |-> Null]

-----------------------------------------------------------------------------
(* InferenceGateway *)

Response(text) == [raised |-> "None", content |-> text]

Failure(exc) == [raised |-> exc, content |-> NoText]

\* variant: a failure of the model is turned into an empty response
generate_swallowing(model_outcome) == Response(model_outcome.content)

\* InferenceGateway.generate: the model's response is returned as it is, the
\* model's exception is logged and raised again
generate(model_outcome) ==
    IF model_outcome.raised = "None"
    THEN Response(model_outcome.content)
    ELSE Failure(model_outcome.raised)

-----------------------------------------------------------------------------
(* TraceLogger *)

NoTime == -1

LogStep(agent_name, action_type, status, timestamp, metadata) ==
    [agent_name |-> agent_name, action_type |-> action_type,
     status |-> status, timestamp |-> timestamp, metadata |-> metadata]

\* TraceLogger.__init__
TraceLoggerInit ==
    [steps |-> <<>>, start_time |-> NoTime, end_time |-> NoTime,
     workflow_metadata |-> EmptyDict]

\* variant: a new start also forgets the previous end
start_workflow_fresh(tr, now, metadata) ==
    [tr EXCEPT !.start_time = now, !.end_time = NoTime,
               !.workflow_metadata = metadata]

start_workflow(tr, now, metadata) ==
    [tr EXCEPT !.start_time = now, !.workflow_metadata = metadata]

\* variant: the completion metadata replaces what start_workflow stored
end_workflow_replacing(tr, now, metadata) ==
    [tr EXCEPT !.end_time = now, !.workflow_metadata = metadata]

end_workflow(tr, now, metadata) ==
    [tr EXCEPT !.end_time = now,
               !.workflow_metadata = DictUpdate(@, metadata)]

\* variant: the newest step is put first
log_step_newest_first(tr, now, agent_name, action_type, status, metadata) ==
    [tr EXCEPT !.steps =
        <<LogStep(agent_name, action_type, status, now, metadata)>> \o @]

log_step(tr, now, agent_name, action_type, status, metadata) ==
    [tr EXCEPT !.steps =
        Append(@, LogStep(agent_name, action_type, status, now, metadata))]

-----------------------------------------------------------------------------
(* Inputs *)

Topics == {"remote work"}

BrandVoices == {"None", "Use #TechInnovation"}

Thresholds == {Pts(0), Pts(7), Pts(8), Pts(9), Pts(11)}

OutlineTexts == {<<SP, W("hook"), W("points"), W("cta"), SP>>}

DraftTexts == {<<W("draft-a"), SP>>, <<SP, W("draft-b")>>}

BackendErrors == {"TimeoutError", "RateLimitError"}

EvalApprove9 ==
    <<W("Sure"), LB, KV("score", Num(9)), KV("feedback", Str("")),
      KV("approved", Bool(TRUE)), RB>>

EvalReject6 ==
    <<LB, KV("score", Num(6)), SP, KV("feedback", Str("tighten the hook")),
      KV("approved", Bool(FALSE)), RB, SP>>

EvalReject6Silent ==
    <<LB, KV("score", Num(6)), KV("feedback", Str("")), KV("approved", Bool(TRUE)), RB>>

EvalSubScores ==
    <<LB, KV("brand_adherence", Num(9)), KV("quality", Num(8)),
      KV("feedback", Str("add hashtags")), RB>>

EvalProse == <<W("not"), SP, W("json"), SP, W("at"), SP, W("all")>>

EvalBroken == <<LB, W("score"), KV("feedback", Str("x")), RB>>

EvalReversed == <<RB, W("oops"), LB>>

EvalNoFeedback == <<LB, KV("score", Num(9)), RB>>

EvalNullScore == <<LB, KV("score", Null), KV("feedback", Str("x")), RB>>

EvalTextSubScore ==
    <<LB, KV("quality", Str("high")), KV("feedback", Str("x")), RB>>

EvalTexts ==
    {EvalApprove9, EvalReject6, EvalReject6Silent, EvalSubScores, EvalProse,
     EvalBroken, EvalReversed, EvalNoFeedback, EvalNullScore, EvalTextSubScore}

\* what the model behind the gateway can do with a request
ModelOutcomes(texts) ==
    {Response(text) : text \in texts} \cup {Failure(exc) : exc \in BackendErrors}

-----------------------------------------------------------------------------
(* Stage calls, as the orchestrator makes them *)

StageCall(stage, ol, ct, is_rewrite, critique_feedback) ==
    [stage |-> stage, outline |-> ol, content |-> ct,
     is_rewrite |-> is_rewrite, critique_feedback |-> critique_feedback]

\* variant: the planner logs nothing before its inference call
create_outline_enter_unlogged(tr, now) == tr

\* PlannerAgent.create_outline up to its await
create_outline_enter(tr, now) ==
    log_step(tr, now, "PlannerAgent", "PLANNING", "THINKING", EmptyDict)

\* PlannerAgent.create_outline after its await
create_outline_exit(tr, now) ==
    log_step(tr, now, "PlannerAgent", "PLANNING", "SUCCESS", EmptyDict)

\* WriterAgent.write_post up to its await
write_post_enter(tr, now, is_rewrite) ==
    log_step(tr, now, "WriterAgent",
             IF is_rewrite THEN "REWRITE" ELSE "GENERATION", "THINKING", EmptyDict)

\* WriterAgent.write_post after its await
write_post_exit(tr, now, is_rewrite) ==
    log_step(tr, now, "WriterAgent",
             IF is_rewrite THEN "REWRITE" ELSE "GENERATION", "SUCCESS", EmptyDict)

\* CritiqueAgent.evaluate_post up to its await
evaluate_post_enter(tr, now) ==
    log_step(tr, now, "CritiqueAgent", "CRITIQUE", "THINKING", EmptyDict)

\* variant: the completion step is logged as a success whatever the verdict
evaluate_post_exit_success(tr, now, r, threshold) ==
    log_step(tr, now, "CritiqueAgent", "CRITIQUE", "SUCCESS",
             ("score" :> r.score) @@ ("threshold" :> threshold)
                @@ ("approved" :> r.approved))

\* CritiqueAgent.evaluate_post after its await, for a triple that is returned
evaluate_post_exit(tr, now, r, threshold) ==
    log_step(tr, now, "CritiqueAgent", "CRITIQUE",
             IF r.approved THEN "SUCCESS" ELSE "WARNING",
             ("score" :> r.score) @@ ("threshold" :> threshold)
                @@ ("approved" :> r.approved))

-----------------------------------------------------------------------------
(* MultiAgentFlow *)

\* variant: a score on the threshold is not enough for the orchestrator
flow_approved_strict(fs, threshold) == fs > threshold

\* the flag the orchestrator derives from the last score
flow_approved(fs, threshold) == fs >= threshold

\* the recorder after the end of generate_post
finish_trace(tr, now, it, fs, threshold, duration) ==
    LET ended == end_workflow(tr, now + 1,
                    ("iterations" :> it) @@ ("final_score" :> fs)
                       @@ ("approved" :> flow_approved(fs, threshold))
                       @@ ("duration" :> duration))
    IN  log_step(ended, now + 2, "MultiAgentFlow", "INFO",
                 IF flow_approved(fs, threshold) THEN "SUCCESS" ELSE "WARNING",
                 EmptyDict)

\* the dict returned by generate_post
result_dict(ct, ol, it, fs, wl, duration, threshold) ==
    [content |-> ct, outline |-> ol, iterations |-> it, final_score |-> fs,
     workflow_summary |-> wl, duration_seconds |-> duration,
     approved |-> flow_approved(fs, threshold)]

\* variant: the first draft is reviewed whatever the budget
loop_runs_at_least_once(at, n) == at = 0 \/ at < n + 1

\* the bound of the critique loop: range(max_rewrites + 1)
loop_runs(at, n) == at < n + 1

\* variant: a rewrite is not counted
next_iteration_stuck(it) == it

\* iterations += 1, before a rewrite
next_iteration(it) == it + 1

\* variant: one rewrite too many
may_rewrite_inclusive(at, n) == at <= n

\* variant: gives up one rewrite early
may_rewrite_one_short(at, n) == at < n - 1

\* the test that decides between a rewrite and giving up
may_rewrite(at, n) == at < n

\* variant: the loop does not stop on approval
accepted_ignored(approved) == FALSE

\* the test that ends the loop on an approved review
accepted(approved) == approved

\* variant: the best score seen so far is kept
final_score_best(fs, score) == IF score > fs THEN score ELSE fs

\* final_score after a review that returned score
final_score_after(fs, score) == score

\* the orchestrator's call of create_outline
outline_call == StageCall("create_outline", NoText, NoText, FALSE, Null)

\* the orchestrator's first call of write_post
first_write_call(ol) == StageCall("write_post", ol, NoText, FALSE, Null)

\* variant: the rejected draft is handed over in the place of the outline
rewrite_call_from_draft(ol, ct, feedback) ==
    StageCall("write_post", ct, NoText, TRUE, feedback)

\* variant: the feedback is replaced by a fixed instruction
rewrite_call_generic(ol, ct, feedback) ==
    StageCall("write_post", ol, NoText, TRUE, Str("Please improve the post."))

\* the orchestrator's call of write_post for a rewrite, after a review of
\* the draft ct that returned feedback
rewrite_call(ol, ct, feedback) == StageCall("write_post", ol, NoText, TRUE, feedback)

\* the orchestrator's call of evaluate_post
evaluate_call(ct) == StageCall("evaluate_post", NoText, ct, FALSE, Null)

\* the request write_post sends for a call
writing_request(tp, bv, call) ==
    _create_writing_prompt(tp, call.outline, bv, call.is_rewrite,
                           call.critique_feedback)

\* the request evaluate_post sends for a call
critique_request(tp, bv, call) == _create_critique_prompt(call.content, tp, bv)

\* CritiqueAgent.__init__: every threshold is stored as it comes
CritiqueAgent__init__(threshold) == [raised |-> "None", pass_threshold |-> threshold]

\* MultiAgentFlow.__init__: the agents are built and max_rewrites is stored
\* as it comes; nothing is validated, nothing raises
MultiAgentFlow__init__(critique_threshold, rewrites) ==
    LET critique == CritiqueAgent__init__(critique_threshold)
    IN  [raised |-> critique.raised,
         pass_threshold |-> critique.pass_threshold,
         max_rewrites |-> rewrites]

\* a generate_post call on the flow that has not begun
NewRun(flow) ==
    [max_rewrites |-> flow.max_rewrites, pass_threshold |-> flow.pass_threshold,
     pc |-> "idle", topic |-> "", brand_voice |-> "None", run_start |-> NoTime,
     outline |-> NoText, content |-> NoText, iterations |-> 0,
     final_score |-> 0, workflow_log |-> <<>>, attempt |-> 0, result |-> <<>>,
     error |-> "None", calls |-> <<>>, drafts |-> <<>>, reviews |-> <<>>,
     inference |-> <<>>, backend |-> <<>>]

\* the running generate_post call: its flow, its locals, its histories
Self ==
    [max_rewrites |-> max_rewrites, pass_threshold |-> pass_threshold,
     pc |-> pc, topic |-> topic, brand_voice |-> brand_voice,
     run_start |-> run_start, outline |-> outline, content |-> content,
     iterations |-> iterations, final_score |-> final_score,
     workflow_log |-> workflow_log, attempt |-> attempt, result |-> result,
     error |-> error, calls |-> calls, drafts |-> drafts, reviews |-> reviews,
     inference |-> inference, backend |-> backend]

\* the running call is the given one
Running(run) ==
    /\ max_rewrites = run.max_rewrites
    /\ pass_threshold = run.pass_threshold
    /\ pc = run.pc
    /\ topic = run.topic
    /\ brand_voice = run.brand_voice
    /\ run_start = run.run_start
    /\ outline = run.outline
    /\ content = run.content
    /\ iterations = run.iterations
    /\ final_score = run.final_score
    /\ workflow_log = run.workflow_log
    /\ attempt = run.attempt
    /\ result = run.result
    /\ error = run.error
    /\ calls = run.calls
    /\ drafts = run.drafts
    /\ reviews = run.reviews
    /\ inference = run.inference
    /\ backend = run.backend

\* the flow of the call that never starts when one call is made alone
DefaultFlow == MultiAgentFlow__init__(Pts(8), 2)

Init ==
    /\ \E critique_threshold \in Thresholds, rewrites \in -1..MaxRewritesBound :
          LET flow == MultiAgentFlow__init__(critique_threshold, rewrites)
          IN  /\ flow.raised = "None"
              /\ Running(NewRun(flow))
    /\ peer = NewRun(DefaultFlow)
    /\ trace = TraceLoggerInit
    /\ clock = 0

\* an exception leaves generate_post
Abort(exc) ==
    /\ pc' = "failed"
    /\ error' = exc

\* generate_post from its call to the await inside create_outline
GeneratePost(tp, bv) ==
    /\ pc = "idle"
    /\ topic' = tp
    /\ brand_voice' = bv
    /\ run_start' = clock
    /\ trace' =
         LET started == start_workflow(trace, clock + 1,
                           ("topic" :> tp) @@ ("tone" :> "professional")
                              @@ ("threshold" :> pass_threshold)
                              @@ ("max_rewrites" :> max_rewrites)
                              @@ ("brand_voice" :> (bv # "None")))
             logged == log_step(started, clock + 2, "MultiAgentFlow", "INFO",
                                "THINKING", EmptyDict)
         IN  create_outline_enter(logged, clock + 3)
    /\ clock' = clock + 4
    /\ calls' = Append(calls, outline_call)
    /\ inference' = Append(inference, _create_planning_prompt(tp, bv))
    /\ pc' = "planning"
    /\ UNCHANGED <<max_rewrites, pass_threshold, outline, content, iterations,
                   final_score, workflow_log, attempt, result, error, drafts,
                   reviews, backend, peer>>

\* the planner's inference call ends: the outline is returned and the
\* orchestrator calls write_post, which runs to its await
PlanReturns(model_outcome) ==
    /\ pc = "planning"
    /\ backend' = Append(backend, model_outcome)
    /\ LET response == generate(model_outcome)
           ol == strip(response.content)
       IN  IF response.raised # "None"
           THEN /\ Abort(response.raised)
                /\ UNCHANGED <<outline, trace, clock, calls, inference>>
           ELSE /\ outline' = ol
                /\ trace' = write_post_enter(create_outline_exit(trace, clock),
                                             clock + 1, FALSE)
                /\ clock' = clock + 2
                /\ calls' = Append(calls, first_write_call(ol))
                /\ inference' = Append(inference,
                                  writing_request(topic, brand_voice, first_write_call(ol)))
                /\ pc' = "writing"
                /\ error' = error
    /\ UNCHANGED <<max_rewrites, pass_threshold, topic, brand_voice, run_start,
                   content, iterations, final_score, workflow_log, attempt,
                   result, drafts, reviews, peer>>

\* lines 199-241 of generate_post: the workflow is ended and the dict returned
Return(tr, now, ct, it, fs, wl) ==
    /\ trace' = finish_trace(tr, now, it, fs, pass_threshold, now - run_start)
    /\ clock' = now + 3
    /\ result' = <<result_dict(ct, outline, it, fs, wl, now - run_start,
                               pass_threshold)>>
    /\ pc' = "done"
    /\ error' = error
    /\ UNCHANGED <<calls, inference>>

\* the head of the critique loop with loop variable at: evaluate_post is
\* called and runs to its await, or the range is used up
CritiqueLoop(tr, now, ct, at, it, fs, wl) ==
    IF loop_runs(at, max_rewrites)
    THEN /\ trace' = evaluate_post_enter(tr, now)
         /\ clock' = now + 1
         /\ calls' = Append(calls, evaluate_call(ct))
         /\ inference' = Append(inference,
                           critique_request(topic, brand_voice, evaluate_call(ct)))
         /\ pc' = "reviewing"
         /\ result' = result
         /\ error' = error
    ELSE Return(tr, now, ct, it, fs, wl)

\* the inference call of the initial write_post ends
WriteReturns(model_outcome) ==
    /\ pc = "writing"
    /\ backend' = Append(backend, model_outcome)
    /\ LET response == generate(model_outcome)
           ct == strip(response.content)
       IN  IF response.raised # "None"
           THEN /\ Abort(response.raised)
                /\ UNCHANGED <<content, iterations, final_score, workflow_log,
                               attempt, result, trace, clock, calls, drafts,
                               inference>>
           ELSE /\ content' = ct
                /\ drafts' = Append(drafts, ct)
                /\ iterations' = 1
                /\ final_score' = 0
                /\ workflow_log' = <<>>
                /\ attempt' = 0
                /\ CritiqueLoop(write_post_exit(trace, clock, FALSE), clock + 1,
                                ct, 0, 1, 0, <<>>)
    /\ UNCHANGED <<max_rewrites, pass_threshold, topic, brand_voice, run_start,
                   outline, reviews, peer>>

\* the inference call of a rewriting write_post ends: the loop goes on with
\* the next value of its range
RewriteReturns(model_outcome) ==
    /\ pc = "rewriting"
    /\ backend' = Append(backend, model_outcome)
    /\ LET response == generate(model_outcome)
           ct == strip(response.content)
       IN  IF response.raised # "None"
           THEN /\ Abort(response.raised)
                /\ UNCHANGED <<content, attempt, result, trace, clock, calls,
                               drafts, inference>>
           ELSE /\ content' = ct
                /\ drafts' = Append(drafts, ct)
                /\ attempt' = attempt + 1
                /\ CritiqueLoop(write_post_exit(trace, clock, TRUE), clock + 1,
                                ct, attempt + 1, iterations, final_score,
                                workflow_log)
    /\ UNCHANGED <<max_rewrites, pass_threshold, topic, brand_voice, run_start,
                   outline, iterations, final_score, workflow_log, reviews,
                   peer>>

\* variant: the entry is numbered with the loop variable itself
log_entry_zero_based(at, r) ==
    [iteration |-> at,
     action |-> IF at = 0 THEN "initial_write" ELSE "rewrite",
     score |-> r.score, approved |-> r.approved]

\* one entry of workflow_log
log_entry(at, r) ==
    [iteration |-> at + 1,
     action |-> IF at = 0 THEN "initial_write" ELSE "rewrite",
     score |-> r.score, approved |-> r.approved]

\* the inference call of evaluate_post ends: the review is parsed and the
\* orchestrator accepts, asks for a rewrite or gives up
ReviewReturns(model_outcome) ==
    /\ pc = "reviewing"
    /\ backend' = Append(backend, model_outcome)
    /\ LET response == generate(model_outcome)
           r == evaluate_result(response.content, pass_threshold)
           reviewed == evaluate_post_exit(trace, clock, r, pass_threshold)
           fs == final_score_after(final_score, r.score)
           wl == Append(workflow_log, log_entry(attempt, r))
       IN  IF response.raised # "None"
           THEN /\ Abort(response.raised)
                /\ UNCHANGED <<iterations, final_score, workflow_log, result,
                               trace, clock, calls, reviews, inference>>
           ELSE IF r.raised # "None"
           THEN /\ Abort(r.raised)
                /\ UNCHANGED <<iterations, final_score, workflow_log, result,
                               trace, clock, calls, reviews, inference>>
           ELSE /\ reviews' = Append(reviews,
                                [approved |-> r.approved, feedback |-> r.feedback,
                                 score |-> r.score])
                /\ final_score' = fs
                /\ workflow_log' = wl
                /\ IF accepted(r.approved)
                   THEN /\ Return(reviewed, clock + 1, content, iterations, fs, wl)
                        /\ iterations' = iterations
                   ELSE IF may_rewrite(attempt, max_rewrites)
                   THEN /\ iterations' = next_iteration(iterations)
                        /\ trace' = write_post_enter(reviewed, clock + 1, TRUE)
                        /\ clock' = clock + 2
                        /\ calls' = Append(calls, rewrite_call(outline, content, r.feedback))
                        /\ inference' = Append(inference,
                                          writing_request(topic, brand_voice,
                                             rewrite_call(outline, content, r.feedback)))
                        /\ pc' = "rewriting"
                        /\ result' = result
                        /\ error' = error
                   ELSE /\ Return(reviewed, clock + 1, content, iterations, fs, wl)
                        /\ iterations' = iterations
    /\ UNCHANGED <<max_rewrites, pass_threshold, topic, brand_voice, run_start,
                   outline, content, attempt, drafts, peer>>

Next ==
    \/ \E tp \in Topics, bv \in BrandVoices : GeneratePost(tp, bv)
    \/ \E model_outcome \in ModelOutcomes(OutlineTexts) : PlanReturns(model_outcome)
    \/ \E model_outcome \in ModelOutcomes(DraftTexts) : WriteReturns(model_outcome)
    \/ \E model_outcome \in ModelOutcomes(DraftTexts) : RewriteReturns(model_outcome)
    \/ \E model_outcome \in ModelOutcomes(EvalTexts) : ReviewReturns(model_outcome)

Spec == Init /\ [][Next]_vars

\* a pending inference call returns or fails
InferenceReturns ==
    \/ \E model_outcome \in ModelOutcomes(OutlineTexts) : PlanReturns(model_outcome)
    \/ \E model_outcome \in ModelOutcomes(DraftTexts) : WriteReturns(model_outcome)
    \/ \E model_outcome \in ModelOutcomes(DraftTexts) : RewriteReturns(model_outcome)
    \/ \E model_outcome \in ModelOutcomes(EvalTexts) : ReviewReturns(model_outcome)

\* every inference call eventually returns or fails
LiveSpec == Init /\ [][Next]_vars /\ WF_vars(InferenceReturns)

-----------------------------------------------------------------------------
(* Two generate_post calls on one event loop and one TraceLogger *)

SharedRewritesBound == 1

SharedTopics == {"remote work", "ai ethics"}

SharedEvalTexts == {EvalApprove9, EvalReject6}

SharedRewriteTexts == {<<SP, W("draft-b")>>}

\* variant: content is kept on the flow object, one for all its calls
Switch_content_on_flow ==
    /\ pc # "idle"
    /\ peer.pc \notin {"done", "failed"}
    /\ peer' = Self
    /\ max_rewrites' = peer.max_rewrites
    /\ pass_threshold' = peer.pass_threshold
    /\ pc' = peer.pc
    /\ topic' = peer.topic
    /\ brand_voice' = peer.brand_voice
    /\ run_start' = peer.run_start
    /\ outline' = peer.outline
    /\ content' = content
    /\ iterations' = peer.iterations
    /\ final_score' = peer.final_score
    /\ workflow_log' = peer.workflow_log
    /\ attempt' = peer.attempt
    /\ result' = peer.result
    /\ error' = peer.error
    /\ calls' = peer.calls
    /\ drafts' = peer.drafts
    /\ reviews' = peer.reviews
    /\ inference' = peer.inference
    /\ backend' = peer.backend
    /\ UNCHANGED <<trace, clock>>

\* the running call is suspended at its await, or is over, and the event
\* loop goes on with the other call: each call has its own flow attributes,
\* locals and position; the TraceLogger and the clock are the same for both
Switch ==
    /\ pc # "idle"
    /\ peer.pc \notin {"done", "failed"}
    /\ peer' = Self
    /\ max_rewrites' = peer.max_rewrites
    /\ pass_threshold' = peer.pass_threshold
    /\ pc' = peer.pc
    /\ topic' = peer.topic
    /\ brand_voice' = peer.brand_voice
    /\ run_start' = peer.run_start
    /\ outline' = peer.outline
    /\ content' = peer.content
    /\ iterations' = peer.iterations
    /\ final_score' = peer.final_score
    /\ workflow_log' = peer.workflow_log
    /\ attempt' = peer.attempt
    /\ result' = peer.result
    /\ error' = peer.error
    /\ calls' = peer.calls
    /\ drafts' = peer.drafts
    /\ reviews' = peer.reviews
    /\ inference' = peer.inference
    /\ backend' = peer.backend
    /\ UNCHANGED <<trace, clock>>

\* two calls, on one flow or on two flows of which one has no rewrite budget
SharedInit ==
    /\ \E rewrites \in 0..SharedRewritesBound : \E other_rewrites \in {0, rewrites} :
          /\ Running(NewRun(MultiAgentFlow__init__(Pts(8), rewrites)))
          /\ peer = NewRun(MultiAgentFlow__init__(Pts(8), other_rewrites))
    /\ trace = TraceLoggerInit
    /\ clock = 0

SharedNext ==
    \/ \E tp \in SharedTopics \ {peer.topic} : GeneratePost(tp, "None")
    \/ \E text \in OutlineTexts : PlanReturns(Response(text))
    \/ \E text \in DraftTexts : WriteReturns(Response(text))
    \/ \E text \in SharedRewriteTexts : RewriteReturns(Response(text))
    \/ \E text \in SharedEvalTexts : ReviewReturns(Response(text))
    \/ Switch

SharedSpec == SharedInit /\ [][SharedNext]_vars

-----------------------------------------------------------------------------
(* Views of the history *)

IsWriteCall(call) == call.stage = "write_post"

IsRewriteCall(call) == call.stage = "write_post" /\ call.is_rewrite

IsEvaluateCall(call) == call.stage = "evaluate_post"

IsOutlineCall(call) == call.stage = "create_outline"

WriteCalls == SelectSeq(calls, IsWriteCall)

RewriteCalls == SelectSeq(calls, IsRewriteCall)

EvaluateCalls == SelectSeq(calls, IsEvaluateCall)

OutlineCalls == SelectSeq(calls, IsOutlineCall)

Returned == pc = "done"

TheResult == result[1]

LastReview == reviews[Len(reviews)]

-----------------------------------------------------------------------------
(* C1: for max_rewrites = N >= 0, a run of generate_post that returns has   *)
(* called write_post at least once and at most N + 1 times.                 *)
C1_WritesWithinBudget ==
    (Returned /\ max_rewrites >= 0) =>
        /\ Len(WriteCalls) >= 1
        /\ Len(WriteCalls) <= max_rewrites + 1

\* a returned run that used its whole budget of rewrites
C1_Witness ==
    /\ Returned
    /\ max_rewrites >= 1
    /\ Len(WriteCalls) = max_rewrites + 1

(* C2: create_outline is called exactly once in a run, before any write;    *)
(* every write_post call, initial or rewrite, receives the outline it       *)
(* returned, and that outline is the one in the result.                     *)
C2_OneOutlineForAllWrites ==
    /\ pc # "idle" => Len(OutlineCalls) = 1 /\ IsOutlineCall(calls[1])
    /\ \A i \in 1..Len(calls) :
          IsWriteCall(calls[i]) =>
             /\ backend[1].raised = "None"
             /\ outline = strip(backend[1].content)
             /\ calls[i].outline = outline
    /\ Returned => TheResult.outline = outline

\* a returned run with two rewrites: three writes on one outline
C2_Witness ==
    /\ Returned
    /\ Len(RewriteCalls) = 2
    /\ Len(OutlineCalls) = 1
    /\ TheResult.outline # TheResult.content

(* C3: at every return of generate_post the number of evaluate_post calls   *)
(* equals the number of write_post calls.                                   *)
C3_ReviewsEqualWrites ==
    Returned => Len(EvaluateCalls) = Len(WriteCalls)

(* C4: if the first review of a run is approved the run ends there: one     *)
(* write_post call, one evaluate_post call, no rewrite, and the result has  *)
(* iterations = 1 and approved = true.                                      *)
C4_FirstApprovalEndsRun ==
    (Len(reviews) >= 1 /\ reviews[1].approved) =>
        /\ Returned
        /\ Len(WriteCalls) = 1
        /\ Len(EvaluateCalls) = 1
        /\ Len(reviews) = 1
        /\ Len(RewriteCalls) = 0
        /\ TheResult.iterations = 1
        /\ TheResult.approved = TRUE

\* threshold 8.0, max_rewrites 2, first review scores 9.0
C4_Witness ==
    /\ Returned
    /\ pass_threshold = Pts(8)
    /\ max_rewrites = 2
    /\ Len(reviews) = 1
    /\ reviews[1].approved
    /\ reviews[1].score = Pts(9)

(* C5: if every review of a run is rejected, the run returns normally once  *)
(* the budget is spent, after exactly max_rewrites + 1 write_post calls,    *)
(* with approved = false, iterations = max_rewrites + 1 and the most recent *)
(* draft as content.                                                        *)
C5_ExhaustedReturnsLastDraft ==
    (Len(reviews) >= 1 /\ \A i \in 1..Len(reviews) : ~reviews[i].approved) =>
        /\ Len(reviews) = max_rewrites + 1 => Returned /\ error = "None"
        /\ Returned =>
              /\ Len(WriteCalls) = max_rewrites + 1
              /\ Len(drafts) = max_rewrites + 1
              /\ TheResult.approved = FALSE
              /\ TheResult.iterations = max_rewrites + 1
              /\ TheResult.content = drafts[Len(drafts)]

\* threshold 9.0, max_rewrites 1, scores 7.0 then 6.0: the second draft is
\* returned although the first one scored better
C5_Witness ==
    /\ Returned
    /\ pass_threshold = Pts(9)
    /\ max_rewrites = 1
    /\ Len(reviews) = 2
    /\ reviews[1].score = Pts(7)
    /\ reviews[2].score = Pts(6)
    /\ drafts[1] # drafts[2]
    /\ TheResult.content = drafts[2]
    /\ TheResult.iterations = 2

\* the number of rewrites requested before position p of calls
RewritesBefore(p) == Cardinality({q \in 1..(p - 1) : IsRewriteCall(calls[q])})

\* the number of evaluate_post calls up to position p of calls
EvaluationsUpTo(p) == Cardinality({q \in 1..p : IsEvaluateCall(calls[q])})

(* C6: after a rejected review a rewrite is issued if and only if fewer     *)
(* than max_rewrites rewrites were performed so far in the run, and that    *)
(* rewrite receives as critique_feedback the feedback of this review.       *)
C6_RewriteIffBudgetLeft ==
    \A p \in 1..Len(calls) :
        (/\ IsEvaluateCall(calls[p])
         /\ EvaluationsUpTo(p) <= Len(reviews)
         /\ ~reviews[EvaluationsUpTo(p)].approved) =>
            LET issued == p < Len(calls) /\ IsRewriteCall(calls[p + 1])
            IN  /\ issued <=> RewritesBefore(p) < max_rewrites
                /\ issued => calls[p + 1].critique_feedback =
                                reviews[EvaluationsUpTo(p)].feedback
                /\ ~issued => p = Len(calls)

\* one rejected review answered by a rewrite that carries its feedback, and
\* a later rejected review with the budget spent
C6_Witness ==
    /\ Returned
    /\ max_rewrites = 1
    /\ Len(reviews) = 2
    /\ ~reviews[2].approved
    /\ reviews[1].feedback = Str("tighten the hook")
    /\ Len(RewriteCalls) = 1
    /\ RewriteCalls[1].critique_feedback = Str("tighten the hook")

(* C7: the final_score of the result equals the score returned by the last  *)
(* evaluate_post call of the run.                                           *)
C7_FinalScoreIsLastScore ==
    (Returned /\ Len(reviews) >= 1) => TheResult.final_score = LastReview.score

\* a returned run whose last review scored lower than an earlier one
C7_Witness ==
    /\ Returned
    /\ Len(reviews) >= 2
    /\ reviews[1].score > LastReview.score
    /\ TheResult.final_score = LastReview.score

\* the positions of the inference calls made by evaluate_post
CritiqueRequests == {j \in 1..Len(inference) : inference[j].agent = "critique"}

\* the position of the inference call of the i-th evaluate_post call
CritiqueRequest(i) ==
    CHOOSE j \in CritiqueRequests :
        Cardinality({q \in CritiqueRequests : q <= j}) = i

\* the text the backend returned to the evaluate_post call behind reviews[i]
ReviewText(i) == backend[CritiqueRequest(i)].content

\* there is no '{' ... '}' envelope, or the text from the first '{' to the
\* last '}' is not a key-value record
Undecodable(text) ==
    \/ find(text, "{") = -1
    \/ rfind(text, "}") < find(text, "{")
    \/ ~json_loads(slice(text, find(text, "{"), rfind(text, "}") + 1)).ok

(* C8: when the evaluation text cannot be decoded, evaluate_post returns    *)
(* score 7.0, a non-empty feedback and approved = false, whatever the       *)
(* configured pass_threshold.                                               *)
C8_UndecodableIsRejected ==
    \A i \in 1..Len(reviews) :
        Undecodable(ReviewText(i)) =>
            /\ reviews[i].score = Pts(7)
            /\ Truthy(reviews[i].feedback)
            /\ reviews[i].approved = FALSE

(* C9: for every text the backend returns as an evaluation response,        *)
(* evaluate_post returns a triple and does not raise, so generate_post is   *)
(* aborted only by a failure of the backend.                                *)
C9_EvaluationNeverRaises ==
    /\ Len(reviews) = Cardinality({j \in CritiqueRequests :
                                     j <= Len(backend) /\ backend[j].raised = "None"})
    /\ pc = "failed" => backend[Len(backend)].raised # "None"

(* C10: if the inference call of a stage raises, generate_post aborts       *)
(* there: the same error reaches the caller, no result is returned, the     *)
(* call is not retried and no further inference call is made in the run.    *)
C10_BackendFailureAborts ==
    \A j \in 1..Len(backend) :
        backend[j].raised # "None" =>
            /\ pc = "failed"
            /\ error = backend[j].raised
            /\ result = <<>>
            /\ j = Len(backend)
            /\ Len(inference) = j

\* the backend fails on the review of a rewritten draft
C10_Witness ==
    /\ pc = "failed"
    /\ Len(backend) = 5
    /\ inference[5].agent = "critique"
    /\ backend[5].raised = "RateLimitError"
    /\ error = "RateLimitError"
    /\ Len(inference) = 5
    /\ result = <<>>

\* a threshold outside [0, 10] or a negative rewrite budget
InvalidConfiguration ==
    \/ max_rewrites < 0
    \/ pass_threshold < Pts(0)
    \/ pass_threshold > Pts(10)

(* C11: a MultiAgentFlow with critique_threshold outside [0, 10] or with a  *)
(* negative max_rewrites is refused at construction, so that no flow with   *)
(* such a configuration ever makes an inference call.                       *)
C11_InvalidConfigurationRejected ==
    InvalidConfiguration => inference = <<>>

(* C12: the approved flag returned by evaluate_post is exactly              *)
(* (returned score >= pass_threshold); the approved field of the envelope   *)
(* has no influence; with pass_threshold = 0.0 the first review approves.   *)
C12_ApprovedIsScoreAgainstThreshold ==
    /\ \A i \in 1..Len(reviews) :
          reviews[i].approved = (reviews[i].score >= pass_threshold)
    /\ (pass_threshold = Pts(0) /\ Len(reviews) >= 1) => reviews[1].approved

\* an envelope that says approved: true with score 6 is rejected at 8.0
C12_Witness ==
    /\ pass_threshold = Pts(8)
    /\ Len(reviews) >= 1
    /\ ReviewText(1) = EvalReject6Silent
    /\ reviews[1].score = Pts(6)
    /\ reviews[1].approved = FALSE

-----------------------------------------------------------------------------
(* Views of the recorder *)

StepKind(agent_name, action_type, status) ==
    [agent_name |-> agent_name, action_type |-> action_type, status |-> status]

\* who logged the steps, as what and with which status
StepKinds(steps) ==
    [i \in 1..Len(steps) |->
        StepKind(steps[i].agent_name, steps[i].action_type, steps[i].status)]

\* the steps of the reviews of a complete run from the i-th on, each rejected
\* review that is followed by a rewrite with the two steps of that rewrite
RECURSIVE ReviewPattern(_)
ReviewPattern(i) ==
    IF i > Len(reviews) THEN <<>>
    ELSE <<StepKind("CritiqueAgent", "CRITIQUE", "THINKING"),
           StepKind("CritiqueAgent", "CRITIQUE",
                    IF reviews[i].approved THEN "SUCCESS" ELSE "WARNING")>>
         \o (IF i < Len(reviews)
             THEN <<StepKind("WriterAgent", "REWRITE", "THINKING"),
                    StepKind("WriterAgent", "REWRITE", "SUCCESS")>>
             ELSE <<>>)
         \o ReviewPattern(i + 1)

\* plan, write, review, [rewrite, review]*, done
StagePattern ==
    <<StepKind("PlannerAgent", "PLANNING", "THINKING"),
      StepKind("PlannerAgent", "PLANNING", "SUCCESS"),
      StepKind("WriterAgent", "GENERATION", "THINKING"),
      StepKind("WriterAgent", "GENERATION", "SUCCESS")>>
    \o ReviewPattern(1)
    \o <<StepKind("MultiAgentFlow", "INFO",
                  IF TheResult.approved THEN "SUCCESS" ELSE "WARNING")>>

\* the step the orchestrator logs before it calls the planner
WorkflowStartStep == StepKind("MultiAgentFlow", "INFO", "THINKING")

CausalOrder(steps) ==
    \A i, j \in 1..Len(steps) : i < j => steps[i].timestamp < steps[j].timestamp

StageSteps(steps) ==
    {i \in 1..Len(steps) : steps[i].agent_name # "MultiAgentFlow"}

(* C15 as stated: the steps recorded by one complete run on an empty        *)
(* recorder are in causal order and are exactly plan entry, plan            *)
(* completion, write entry, write completion, the steps of the reviews and  *)
(* rewrites, and the workflow-completed step.                               *)
C15_StepsMatchStagePattern ==
    Returned =>
        /\ CausalOrder(trace.steps)
        /\ StepKinds(trace.steps) = StagePattern
        /\ Cardinality(StageSteps(trace.steps)) = 2 * Len(calls)

(* C15 amended: the steps recorded by one complete run on an empty recorder *)
(* are in causal order and are the orchestrator's workflow-start step       *)
(* (info, thinking) followed by that pattern; each stage call contributes   *)
(* one entry step and one completion step.                                  *)
C15_StepsMatchPatternAfterStart ==
    Returned =>
        /\ CausalOrder(trace.steps)
        /\ StepKinds(trace.steps) = <<WorkflowStartStep>> \o StagePattern
        /\ Cardinality(StageSteps(trace.steps)) = 2 * Len(calls)

\* a complete run: rejected review, rewrite, approved review
C15_Witness ==
    /\ Returned
    /\ Len(reviews) = 2
    /\ ~reviews[1].approved
    /\ reviews[2].approved
    /\ Len(trace.steps) = 12

(* C16: every step of a run is logged after that run's start_workflow and   *)
(* before its end_workflow: once the run is marked ended, no step of it is  *)
(* appended any more.                                                       *)
C16_StepsInsideBracket ==
    \A i \in 1..Len(trace.steps) :
        /\ trace.start_time # NoTime
        /\ trace.start_time < trace.steps[i].timestamp
        /\ trace.end_time # NoTime => trace.steps[i].timestamp < trace.end_time

(* C19: the feedback returned by evaluate_post is empty whenever approved   *)
(* is true and non-empty whenever approved is false.                        *)
C19_FeedbackOnlyWhenRejected ==
    \A i \in 1..Len(reviews) :
        /\ reviews[i].approved => reviews[i].feedback = Str("")
        /\ ~reviews[i].approved =>
              reviews[i].feedback.t = "str" /\ reviews[i].feedback.s # ""

(* C20: workflow_summary has one entry per review, in order: entry i has    *)
(* iteration i, action initial_write for i = 1 and rewrite for i > 1, the   *)
(* score and the approved flag of the i-th review; only the last entry can  *)
(* have approved = true.                                                    *)
C20_SummaryAuditsReviews ==
    Returned =>
        LET summary == TheResult.workflow_summary
        IN  /\ Len(summary) = Len(reviews)
            /\ \A i \in 1..Len(summary) :
                  /\ summary[i].iteration = i
                  /\ summary[i].action = IF i = 1 THEN "initial_write" ELSE "rewrite"
                  /\ summary[i].score = reviews[i].score
                  /\ summary[i].approved = reviews[i].approved
                  /\ i < Len(summary) => ~summary[i].approved

\* three reviews, the last one approved
C20_Witness ==
    /\ Returned
    /\ Len(TheResult.workflow_summary) = 3
    /\ TheResult.workflow_summary[3].approved
    /\ TheResult.workflow_summary[3].action = "rewrite"
    /\ TheResult.workflow_summary[1].score # TheResult.workflow_summary[3].score

-----------------------------------------------------------------------------
(* Runs that share the recorder *)

\* the time of a run's start_workflow
RunStart(run) == run.run_start + 1

\* the time of a returned run's end_workflow
RunEnd(run) == run.run_start + run.result[1].duration_seconds + 1

\* the recorded steps that lie between a returned run's start_workflow and
\* its end_workflow
BracketSteps(run) ==
    SelectSeq(trace.steps,
              LAMBDA step : /\ RunStart(run) < step.timestamp
                            /\ step.timestamp < RunEnd(run))

\* the steps a returned run logs between its start_workflow and its
\* end_workflow: the workflow-start step, and an entry and a completion step
\* for each of its stage calls
OwnBracketSteps(run) == 2 * Len(run.calls) + 1

(* C14: start_workflow resets the step list, so after any sequence of runs  *)
(* on the shared recorder the list holds only steps of the most recently    *)
(* started run: no step in it is older than the recorded start time.        *)
C14_StartWorkflowResetsSteps ==
    \A i \in 1..Len(trace.steps) :
        trace.steps[i].timestamp > trace.start_time

(* C17: two in-flight runs never write to the same recorder state: between  *)
(* a run's start_workflow and its end_workflow only its own steps are       *)
(* appended to the step list, and the workflow_metadata present after its   *)
(* end_workflow holds the start values and the completion values of that    *)
(* same run.                                                                *)
C17_RunsDoNotShareRecorder ==
    \A run \in {Self, peer} :
        run.pc = "done" =>
            /\ Len(BracketSteps(run)) = OwnBracketSteps(run)
            /\ (trace.end_time = RunEnd(run) /\ trace.start_time < RunEnd(run)) =>
                  LET md == trace.workflow_metadata
                  IN  /\ md["topic"] = run.topic
                      /\ md["threshold"] = run.pass_threshold
                      /\ md["max_rewrites"] = run.max_rewrites
                      /\ md["iterations"] = run.result[1].iterations
                      /\ md["final_score"] = run.result[1].final_score
                      /\ md["approved"] = run.result[1].approved

\* the critique loop of a run that is alone, replayed on the outcomes outs of
\* its inference calls from the k-th on
RECURSIVE SoloLoop(_, _, _, _, _, _, _, _, _)
SoloLoop(n, threshold, outs, k, at, ct, it, fs, wl) ==
    IF ~loop_runs(at, n)
    THEN [content |-> ct, iterations |-> it, final_score |-> fs,
          workflow_summary |-> wl]
    ELSE LET r == evaluate_result(generate(outs[k]).content, threshold)
             fs2 == final_score_after(fs, r.score)
             wl2 == Append(wl, log_entry(at, r))
         IN  IF accepted(r.approved)
             THEN [content |-> ct, iterations |-> it, final_score |-> fs2,
                   workflow_summary |-> wl2]
             ELSE IF may_rewrite(at, n)
             THEN SoloLoop(n, threshold, outs, k + 2, at + 1,
                           strip(generate(outs[k + 1]).content),
                           next_iteration(it), fs2, wl2)
             ELSE [content |-> ct, iterations |-> it, final_score |-> fs2,
                   workflow_summary |-> wl2]

\* what generate_post returns for a flow and the outcomes of its inference
\* calls when no other run exists
SoloResult(n, threshold, outs) ==
    LET ol == strip(generate(outs[1]).content)
        ct == strip(generate(outs[2]).content)
        looped == SoloLoop(n, threshold, outs, 3, 0, ct, 1, 0, <<>>)
    IN  [content |-> looped.content, outline |-> ol,
         iterations |-> looped.iterations, final_score |-> looped.final_score,
         workflow_summary |-> looped.workflow_summary,
         approved |-> flow_approved(looped.final_score, threshold)]

(* C18: the workflow state of a run is owned by that run alone: with two    *)
(* runs interleaved at their inference calls, the content, outline,         *)
(* iterations, final_score, approved and workflow_summary each run returns  *)
(* are those it returns for the same flow and the same stage outputs when   *)
(* it runs alone.                                                           *)
C18_RunOwnsItsWorkflowState ==
    \A run \in {Self, peer} :
        run.pc = "done" =>
            LET solo == SoloResult(run.max_rewrites, run.pass_threshold, run.backend)
                returned == run.result[1]
            IN  /\ returned.content = solo.content
                /\ returned.outline = solo.outline
                /\ returned.iterations = solo.iterations
                /\ returned.final_score = solo.final_score
                /\ returned.approved = solo.approved
                /\ returned.workflow_summary = solo.workflow_summary

\* two runs that overlapped in time and returned different posts after a
\* different number of iterations
C18_Witness ==
    /\ pc = "done"
    /\ peer.pc = "done"
    /\ peer.run_start < run_start
    /\ run_start < RunEnd(peer)
    /\ RunEnd(peer) < RunEnd(Self)
    /\ result[1].content # peer.result[1].content
    /\ result[1].iterations < peer.result[1].iterations
    /\ result[1].approved # peer.result[1].approved

-----------------------------------------------------------------------------
(* Termination *)

\* generate_post returned after an approved review
Accepted == pc = "done" /\ Len(reviews) >= 1 /\ LastReview.approved

\* generate_post returned after a rejected review with the budget spent
Exhausted ==
    /\ pc = "done"
    /\ Len(reviews) >= 1
    /\ ~LastReview.approved
    /\ Len(RewriteCalls) = max_rewrites

\* a stage error left generate_post
Failed == pc = "failed" /\ error # "None"

(* C13: provided every inference call eventually returns or fails, every    *)
(* run started in PLANNING eventually terminates, returning after an        *)
(* approved review (ACCEPTED), returning after a rejected review with the   *)
(* rewrite budget spent (EXHAUSTED), or propagating a stage error; it never *)
(* makes more than max_rewrites + 1 reviews.                                *)
C13_RunEndsAcceptedExhaustedOrFailed ==
    /\ [](Len(EvaluateCalls) <= max_rewrites + 1)
    /\ (pc = "planning") ~> (Accepted \/ Exhausted \/ Failed)

-----------------------------------------------------------------------------
(* Inference calls *)

(* C21: each stage call issues exactly one inference call and the           *)
(* orchestrator none: a run that returns has made exactly 1 + (write calls) *)
(* + (review calls) inference calls, hence at most 2 * max_rewrites + 3.    *)
C21_OneInferencePerStageCall ==
    /\ Len(inference) = Len(calls)
    /\ Returned =>
          /\ Len(inference) = 1 + Len(WriteCalls) + Len(EvaluateCalls)
          /\ Len(inference) <= 2 * max_rewrites + 3

-----------------------------------------------------------------------------
(* The recorder's operations *)

\* steps as the stages and the orchestrator log them
LoggedKinds ==
    {WorkflowStartStep,
     StepKind("WriterAgent", "REWRITE", "SUCCESS"),
     StepKind("CritiqueAgent", "CRITIQUE", "WARNING")}

StartKeys == {"topic", "tone", "threshold", "max_rewrites", "brand_voice"}

CompletionKeys == {"iterations", "final_score", "approved", "duration"}

(* C22: log_step is append-only: a call adds exactly one step at the end of *)
(* the step list, the steps recorded before keep their content and order,   *)
(* and start_time, end_time and workflow_metadata are left unchanged.       *)
C22_LogStepAppendsOnly ==
    \A kind \in LoggedKinds :
        LET after == log_step(trace, clock, kind.agent_name, kind.action_type,
                              kind.status, EmptyDict)
            n == Len(trace.steps)
        IN  /\ Len(after.steps) = n + 1
            /\ SubSeq(after.steps, 1, n) = trace.steps
            /\ after.steps[n + 1] =
                  LogStep(kind.agent_name, kind.action_type, kind.status,
                          clock, EmptyDict)
            /\ after.start_time = trace.start_time
            /\ after.end_time = trace.end_time
            /\ after.workflow_metadata = trace.workflow_metadata

\* a recorder with steps, both times and metadata, whose last step was
\* logged by the orchestrator at its return
C22_Witness ==
    /\ Returned
    /\ Len(trace.steps) >= 10
    /\ trace.end_time # NoTime
    /\ "iterations" \in DOMAIN trace.workflow_metadata
    /\ trace.steps[Len(trace.steps)].agent_name = "MultiAgentFlow"
    /\ trace.steps[Len(trace.steps)].status = "WARNING"

\* the metadata generate_post hands to end_workflow
completion_metadata(it, fs, threshold, duration) ==
    ("iterations" :> it) @@ ("final_score" :> fs)
       @@ ("approved" :> flow_approved(fs, threshold))
       @@ ("duration" :> duration)

(* C23: end_workflow records the end time and merges its metadata into      *)
(* workflow_metadata: the keys given at start_workflow and not given again  *)
(* keep their start values, the completion keys are added, and the step     *)
(* list and start_time are unchanged.                                       *)
C23_EndWorkflowMerges ==
    /\ LET md == completion_metadata(iterations, final_score, pass_threshold,
                                     clock - run_start)
           after == end_workflow(trace, clock, md)
       IN  /\ after.end_time = clock
           /\ after.steps = trace.steps
           /\ after.start_time = trace.start_time
           /\ DOMAIN after.workflow_metadata =
                 DOMAIN trace.workflow_metadata \cup CompletionKeys
           /\ \A key \in CompletionKeys : after.workflow_metadata[key] = md[key]
           /\ \A key \in DOMAIN trace.workflow_metadata \ CompletionKeys :
                 after.workflow_metadata[key] = trace.workflow_metadata[key]
    /\ Returned =>
          /\ trace.end_time = RunEnd(Self)
          /\ trace.start_time = RunStart(Self)
          /\ DOMAIN trace.workflow_metadata = StartKeys \cup CompletionKeys
          /\ trace.workflow_metadata["topic"] = topic
          /\ trace.workflow_metadata["threshold"] = pass_threshold
          /\ trace.workflow_metadata["max_rewrites"] = max_rewrites
          /\ trace.workflow_metadata["brand_voice"] = (brand_voice # "None")
          /\ trace.workflow_metadata["iterations"] = TheResult.iterations
          /\ trace.workflow_metadata["final_score"] = TheResult.final_score
          /\ trace.workflow_metadata["approved"] = TheResult.approved
          /\ trace.workflow_metadata["duration"] = TheResult.duration_seconds

\* a returned run with a brand voice and two iterations
C23_Witness ==
    /\ Returned
    /\ brand_voice # "None"
    /\ trace.workflow_metadata["brand_voice"] = TRUE
    /\ trace.workflow_metadata["iterations"] = 2
    /\ trace.workflow_metadata["approved"] = TRUE
    /\ trace.end_time > trace.start_time

-----------------------------------------------------------------------------
(* Reviews and rewrites *)

RewriteRequests ==
    {j \in 1..Len(inference) :
        inference[j].agent = "writer" /\ inference[j].action = "Rewrite"}

\* the number of the review that precedes the j-th inference call
ReviewBefore(j) == Cardinality({q \in CritiqueRequests : q < j})

(* C25: whenever the orchestrator issues a rewrite, the generation request  *)
(* of write_post carries the critique-feedback section with the prior       *)
(* review's feedback, for every feedback a rejecting review can return,     *)
(* an empty one included.                                                   *)
C25_RewriteCarriesFeedback ==
    \A j \in RewriteRequests :
        /\ inference[j].rewrite_section
        /\ inference[j].feedback = reviews[ReviewBefore(j)].feedback

-----------------------------------------------------------------------------
(* Degenerate and failed runs *)

(* C26: with a negative max_rewrites, which the constructor accepts,        *)
(* generate_post makes the outline call and one write call but no review,   *)
(* and returns normally with iterations = 1, final_score = 0.0, an empty    *)
(* workflow_summary and approved = (0.0 >= critique_threshold).             *)
C26_NegativeBudgetSkipsReview ==
    max_rewrites < 0 =>
        /\ Len(EvaluateCalls) = 0
        /\ Len(reviews) = 0
        /\ Len(drafts) = 1 =>
              /\ Returned
              /\ Len(OutlineCalls) = 1
              /\ Len(WriteCalls) = 1
              /\ TheResult.content = drafts[1]
              /\ TheResult.iterations = 1
              /\ TheResult.final_score = Pts(0)
              /\ TheResult.workflow_summary = <<>>
              /\ TheResult.approved = (Pts(0) >= pass_threshold)

\* a negative budget with threshold 0.0: the unreviewed draft is approved
C26_Witness ==
    /\ max_rewrites < 0
    /\ Returned
    /\ pass_threshold = Pts(0)
    /\ TheResult.approved
    /\ Len(inference) = 2

\* the agent that runs a stage
StageAgent(stage) ==
    CASE stage = "create_outline" -> "PlannerAgent"
      [] stage = "write_post" -> "WriterAgent"
      [] stage = "evaluate_post" -> "CritiqueAgent"

\* the last inference call of the run raised
InferenceRaised ==
    /\ pc = "failed"
    /\ Len(backend) >= 1
    /\ backend[Len(backend)].raised # "None"

(* C27: when a stage's inference call raises, the recorder is left with     *)
(* that stage's THINKING entry step as its last step and no completion step *)
(* for it, and end_workflow is never invoked: end_time and the completion   *)
(* metadata are not written, and the steps logged so far are not removed.   *)
C27_FailedRunLeavesOpenTrace ==
    InferenceRaised =>
        LET last == trace.steps[Len(trace.steps)]
        IN  /\ error = backend[Len(backend)].raised
            /\ last.status = "THINKING"
            /\ last.agent_name = StageAgent(calls[Len(calls)].stage)
            /\ Len(trace.steps) = 2 * Len(calls)
            /\ CausalOrder(trace.steps)
            /\ trace.steps[1].agent_name = "MultiAgentFlow"
            /\ trace.end_time = NoTime
            /\ DOMAIN trace.workflow_metadata = StartKeys
            /\ result = <<>>

\* the critic's inference call fails after a rewrite
C27_Witness ==
    /\ InferenceRaised
    /\ error = "RateLimitError"
    /\ calls[Len(calls)].stage = "evaluate_post"
    /\ Len(RewriteCalls) = 1
    /\ Len(trace.steps) = 10

(* C28: on every return after at least one review, the result's approved    *)
(* flag, the approved value merged into workflow_metadata and the status of *)
(* the final workflow-completed step (SUCCESS iff approved) all equal the   *)
(* approved flag of the last review.                                        *)
C28_ApprovalAgreesEverywhere ==
    (Returned /\ Len(reviews) >= 1) =>
        LET last == trace.steps[Len(trace.steps)]
        IN  /\ TheResult.approved = LastReview.approved
            /\ trace.workflow_metadata["approved"] = LastReview.approved
            /\ last.agent_name = "MultiAgentFlow"
            /\ last.action_type = "INFO"
            /\ last.status = IF LastReview.approved THEN "SUCCESS" ELSE "WARNING"

\* a rejected review, then one that scores exactly the threshold
C28_Witness ==
    /\ Returned
    /\ Len(reviews) = 2
    /\ ~reviews[1].approved
    /\ LastReview.score = pass_threshold
    /\ TheResult.approved
    /\ trace.steps[Len(trace.steps)].status = "SUCCESS"

(* C29: on every return with max_rewrites >= 0, the result's iterations     *)
(* equals the number of write_post calls, the number of workflow_summary    *)
(* entries and 1 + the number of rewrites, and lies between 1 and           *)
(* max_rewrites + 1.                                                        *)
C29_IterationsCountWrites ==
    (Returned /\ max_rewrites >= 0) =>
        /\ TheResult.iterations = Len(WriteCalls)
        /\ TheResult.iterations = Len(TheResult.workflow_summary)
        /\ TheResult.iterations = 1 + Len(RewriteCalls)
        /\ TheResult.iterations >= 1
        /\ TheResult.iterations <= max_rewrites + 1

\* a run that used its whole budget of two rewrites
C29_Witness ==
    /\ Returned
    /\ max_rewrites = 2
    /\ TheResult.iterations = 3
    /\ Len(RewriteCalls) = 2

\* the running call began on the recorder after the other call had returned
Reused ==
    /\ peer.pc = "done"
    /\ pc \in {"planning", "writing", "rewriting", "reviewing"}
    /\ RunEnd(peer) < RunStart(Self)

(* C30: start_workflow replaces workflow_metadata wholesale and overwrites  *)
(* start_time but leaves end_time: on a recorder reused without reset(),    *)
(* between a later run's start_workflow and its end_workflow no completion  *)
(* key of the earlier run is in workflow_metadata, while end_time still     *)
(* holds the earlier run's end, which precedes the new start_time.          *)
C30_StartWorkflowKeepsEndTime ==
    Reused =>
        /\ DOMAIN trace.workflow_metadata = StartKeys
        /\ trace.workflow_metadata["topic"] = topic
        /\ trace.workflow_metadata["max_rewrites"] = max_rewrites
        /\ trace.start_time = RunStart(Self)
        /\ trace.end_time = RunEnd(peer)
        /\ trace.end_time < trace.start_time

\* the second run waits for its review; the first one had two iterations
C30_Witness ==
    /\ Reused
    /\ pc = "reviewing"
    /\ peer.result[1].iterations = 2
    /\ topic # peer.topic
    /\ trace.end_time # NoTime

====
